---- MODULE Spec2Model ----
(***************************************************************************)
(* Model of the agent-finder.nvim Python side: the protocol SDK            *)
(* (python/sdk.py) and the template agent runner (python/agent_runner.py). *)
(*                                                                         *)
(* Python / JSON values are tagged records:                                *)
(*   None/null  [t |-> "null"]                                             *)
(*   bool       [t |-> "bool",  b |-> TRUE]                                *)
(*   int        [t |-> "int",   n |-> 3]                                   *)
(*   float      [t |-> "float", tenths |-> 5]        (the value 0.5)       *)
(*   str        [t |-> "str",   s |-> <<"h", "i">>]  (sequence of chars)   *)
(*   list       [t |-> "arr",   a |-> <<v1, v2>>]                          *)
(*   dict       [t |-> "obj",   p |-> << <<key, v>>, ... >>]               *)
(* A dict keeps its pairs in insertion order, keys are character           *)
(* sequences and are pairwise distinct.  A text (stdin, stdout) is either  *)
(* empty, something that is not JSON, or the JSON document of a value.     *)
(***************************************************************************)
EXTENDS Integers, Sequences, FiniteSets, TLC

VARIABLES
    stdin,        \* the text on standard input of the process
    stdout,       \* sequence of texts written to standard output
    pc,           \* position of the process / phase of the session
    raised,       \* exception that left the process uncaught, or NoException
    request,      \* sdk.read_request(): the Request that was built
    main_payload, \* agent_runner.main(): the decoded payload
    call,         \* sdk constructors: the call the policy made
    envelope,     \* sdk constructors: the envelope last returned
    session,      \* turn loop: instructions and tools the editor supplies
    history,      \* turn loop: the messages sequence resupplied each turn
    iteration,    \* turn loop: iteration counter sent to the agent
    invocations,  \* turn loop: number of agent invocations so far
    tool_calls    \* turn loop: number of tool calls executed so far

vars == <<stdin, stdout, pc, raised, request, main_payload, call, envelope,
          session, history, iteration, invocations, tool_calls>>

-----------------------------------------------------------------------------
(* Bounds of the model *)

MaxMsgs == 2
MaxFields == 2
MaxIteration == 4

-----------------------------------------------------------------------------
(* String literals of the source, as character sequences *)

K_protocol == <<"p", "r", "o", "t", "o", "c", "o", "l">>
K_version == <<"v", "e", "r", "s", "i", "o", "n">>
K_instructions == <<"i", "n", "s", "t", "r", "u", "c", "t", "i", "o", "n", "s">>
K_messages == <<"m", "e", "s", "s", "a", "g", "e", "s">>
K_role == <<"r", "o", "l", "e">>
K_content == <<"c", "o", "n", "t", "e", "n", "t">>
K_tools == <<"t", "o", "o", "l", "s">>
K_context == <<"c", "o", "n", "t", "e", "x", "t">>
K_buffer == <<"b", "u", "f", "f", "e", "r">>
K_path == <<"p", "a", "t", "h">>
K_filetype == <<"f", "i", "l", "e", "t", "y", "p", "e">>
K_editor == <<"e", "d", "i", "t", "o", "r">>
K_cwd == <<"c", "w", "d">>
K_iteration == <<"i", "t", "e", "r", "a", "t", "i", "o", "n">>
K_tool_call == <<"t", "o", "o", "l", "_", "c", "a", "l", "l">>
K_ask_user == <<"a", "s", "k", "_", "u", "s", "e", "r">>
K_terminate == <<"t", "e", "r", "m", "i", "n", "a", "t", "e">>
K_error == <<"e", "r", "r", "o", "r">>
K_message == <<"m", "e", "s", "s", "a", "g", "e">>
K_name == <<"n", "a", "m", "e">>
K_arguments == <<"a", "r", "g", "u", "m", "e", "n", "t", "s">>
K_start_line == <<"s", "t", "a", "r", "t", "_", "l", "i", "n", "e">>
K_end_line == <<"e", "n", "d", "_", "l", "i", "n", "e">>
PROTOCOL_VERSION == <<"1", ".", "0">>
S_user == <<"u", "s", "e", "r">>
S_ReadFileLines == <<"R", "e", "a", "d", "F", "i", "l", "e", "L", "i", "n", "e", "s">>
S_etc_hosts == <<"/", "e", "t", "c", "/", "h", "o", "s", "t", "s">>
S_help == <<"H", "o", "w", " ", "c", "a", "n", " ", "I", " ", "h", "e", "l", "p", " ", "y", "o", "u", "?">>
S_invalid_input == <<"I", "n", "v", "a", "l", "i", "d", " ", "i", "n", "p", "u", "t", " ", "J", "S", "O", "N", ":", " ">>
S_runner_error == <<"R", "u", "n", "n", "e", "r", " ", "e", "r", "r", "o", "r", ":", " ">>
S_sep == <<"\n", "\n">>

(* Texts the Python runtime produces *)
S_None == <<"N", "o", "n", "e">>
S_True == <<"T", "r", "u", "e">>
S_False == <<"F", "a", "l", "s", "e">>
S_no_attr == <<" ", "o", "b", "j", "e", "c", "t", " ", "h", "a", "s", " ", "n", "o", " ", "a", "t", "t", "r", "i", "b", "u", "t", "e", " ">>
S_not_iterable == <<" ", "o", "b", "j", "e", "c", "t", " ", "i", "s", " ", "n", "o", "t", " ", "i", "t", "e", "r", "a", "b", "l", "e">>
S_not_reversible == <<" ", "o", "b", "j", "e", "c", "t", " ", "i", "s", " ", "n", "o", "t", " ", "r", "e", "v", "e", "r", "s", "i", "b", "l", "e">>
S_expecting == <<"E", "x", "p", "e", "c", "t", "i", "n", "g", " ", "v", "a", "l", "u", "e", ":", " ", "l", "i", "n", "e", " ", "1", " ", "c", "o", "l", "u", "m", "n", " ", "1", " ", "(", "c", "h", "a", "r", " ", "0", ")">>
S_int_arg == <<"i", "n", "t", "(", ")", " ", "a", "r", "g", "u", "m", "e", "n", "t", " ", "m", "u", "s", "t", " ", "b", "e", " ", "a", " ", "s", "t", "r", "i", "n", "g", ",", " ", "a", " ", "b", "y", "t", "e", "s", "-", "l", "i", "k", "e", " ", "o", "b", "j", "e", "c", "t", " ", "o", "r", " ", "a", " ", "r", "e", "a", "l", " ", "n", "u", "m", "b", "e", "r", ",", " ", "n", "o", "t", " ">>
S_invalid_literal == <<"i", "n", "v", "a", "l", "i", "d", " ", "l", "i", "t", "e", "r", "a", "l", " ", "f", "o", "r", " ", "i", "n", "t", "(", ")", " ", "w", "i", "t", "h", " ", "b", "a", "s", "e", " ", "1", "0", ":", " ">>
S_not_container == <<"a", "r", "g", "u", "m", "e", "n", "t", " ", "o", "f", " ", "t", "y", "p", "e", " ">>
S_dict_update == <<"c", "a", "n", "n", "o", "t", " ", "c", "o", "n", "v", "e", "r", "t", " ", "d", "i", "c", "t", "i", "o", "n", "a", "r", "y", " ", "u", "p", "d", "a", "t", "e", " ", "s", "e", "q", "u", "e", "n", "c", "e", " ", "e", "l", "e", "m", "e", "n", "t", " ", "#", "0", " ", "t", "o", " ", "a", " ", "s", "e", "q", "u", "e", "n", "c", "e">>
S_dict_length == <<"d", "i", "c", "t", "i", "o", "n", "a", "r", "y", " ", "u", "p", "d", "a", "t", "e", " ", "s", "e", "q", "u", "e", "n", "c", "e", " ", "e", "l", "e", "m", "e", "n", "t", " ", "#", "0", " ", "h", "a", "s", " ", "l", "e", "n", "g", "t", "h", " ", "1", ";", " ", "2", " ", "i", "s", " ", "r", "e", "q", "u", "i", "r", "e", "d">>
S_is_not_iterable == <<" ", "i", "s", " ", "n", "o", "t", " ", "i", "t", "e", "r", "a", "b", "l", "e">>
S_NoneType == <<"N", "o", "n", "e", "T", "y", "p", "e">>
S_bool == <<"b", "o", "o", "l">>
S_int == <<"i", "n", "t">>
S_float == <<"f", "l", "o", "a", "t">>
S_str == <<"s", "t", "r">>
S_list == <<"l", "i", "s", "t">>
S_dict == <<"d", "i", "c", "t">>
S_get == <<"g", "e", "t">>

(* Sample texts used as inputs *)
S_tool == <<"t", "o", "o", "l">>
S_assistant == <<"a", "s", "s", "i", "s", "t", "a", "n", "t">>
S_hi == <<"h", "i">>
S_yo == <<"y", "o">>
S_brief == <<"b", "e", " ", "b", "r", "i", "e", "f">>
S_abc == <<"a", "b", "c">>
S_v2 == <<"2", ".", "0">>
S_done == <<"d", "o", "n", "e">>
S_ab_py == <<"/", "a", "/", "b", ".", "p", "y">>

-----------------------------------------------------------------------------
(* Python values *)

JNull == [t |-> "null"]
JBool(b) == [t |-> "bool", b |-> b]
JInt(n) == [t |-> "int", n |-> n]
JFloat(k) == [t |-> "float", tenths |-> k]
JStr(s) == [t |-> "str", s |-> s]
JArr(a) == [t |-> "arr", a |-> a]
JObj(p) == [t |-> "obj", p |-> p]

EmptyDict == JObj(<<>>)

IsDict(v) == v.t = "obj"
IsStr(v) == v.t = "str"

Keys(d) == {d.p[i][1] : i \in DOMAIN d.p}

(* d[k] for a key that is present *)
Item(d, k) == d.p[CHOOSE i \in DOMAIN d.p : d.p[i][1] = k][2]

(* dict.get(k, default) *)
get(d, k, default) == IF k \in Keys(d) THEN Item(d, k) ELSE default

(* bool(v): the truth value Python's `or`, `if` and `not` use *)
Truthy(v) ==
    CASE v.t = "null" -> FALSE
      [] v.t = "bool" -> v.b
      [] v.t = "int" -> v.n # 0
      [] v.t = "float" -> v.tenths # 0
      [] v.t = "str" -> v.s # <<>>
      [] v.t = "arr" -> v.a # <<>>
      [] v.t = "obj" -> v.p # <<>>

(* a or b *)
Or(a, b) == IF Truthy(a) THEN a ELSE b

(* type(v).__name__ *)
TypeName(v) ==
    CASE v.t = "null" -> S_NoneType
      [] v.t = "bool" -> S_bool
      [] v.t = "int" -> S_int
      [] v.t = "float" -> S_float
      [] v.t = "str" -> S_str
      [] v.t = "arr" -> S_list
      [] v.t = "obj" -> S_dict

Quote(s) == <<"'">> \o s \o <<"'">>

(* Results of a call: a returned value or a raised exception *)
Ok(v) == [ok |-> TRUE, val |-> v]
Raise(e, m) == [ok |-> FALSE, exc |-> e, msg |-> m]
NoException == [ok |-> TRUE]

AttributeError(v, attr) ==
    Raise("AttributeError", Quote(TypeName(v)) \o S_no_attr \o Quote(attr))

Digits == <<"0", "1", "2", "3", "4", "5", "6", "7", "8", "9">>

IsDigit(c) == \E i \in 1..10 : Digits[i] = c

DigitVal(c) == (CHOOSE i \in 1..10 : Digits[i] = c) - 1

RECURSIVE NatStr(_)
NatStr(n) == IF n < 10 THEN <<Digits[n + 1]>>
             ELSE NatStr(n \div 10) \o <<Digits[(n % 10) + 1]>>

Abs(n) == IF n < 0 THEN 0 - n ELSE n

(* str(n) for an int *)
IntStr(n) == IF n < 0 THEN <<"-">> \o NatStr(0 - n) ELSE NatStr(n)

(* str(x) for a float with one decimal *)
FloatStr(k) ==
    (IF k < 0 THEN <<"-">> ELSE <<>>)
        \o NatStr(Abs(k) \div 10) \o <<".">> \o NatStr(Abs(k) % 10)

RECURSIVE Join(_, _)
Join(parts, sep) ==
    IF parts = <<>> THEN <<>>
    ELSE IF Len(parts) = 1 THEN parts[1]
    ELSE parts[1] \o sep \o Join(Tail(parts), sep)

(* repr(v) *)
RECURSIVE pyrepr(_)
pyrepr(v) ==
    CASE v.t = "null" -> S_None
      [] v.t = "bool" -> (IF v.b THEN S_True ELSE S_False)
      [] v.t = "int" -> IntStr(v.n)
      [] v.t = "float" -> FloatStr(v.tenths)
      [] v.t = "str" -> Quote(v.s)
      [] v.t = "arr" ->
            <<"[">> \o Join([i \in DOMAIN v.a |-> pyrepr(v.a[i])], <<",", " ">>) \o <<"]">>
      [] v.t = "obj" ->
            <<"{">> \o Join([i \in DOMAIN v.p |->
                                Quote(v.p[i][1]) \o <<":", " ">> \o pyrepr(v.p[i][2])],
                            <<",", " ">>) \o <<"}">>

(* str(v): the characters; a str is returned as it is *)
pystr(v) == IF v.t = "str" THEN v.s ELSE pyrepr(v)

RECURSIVE DigitsVal(_)
DigitsVal(s) == IF s = <<>> THEN 0
                ELSE 10 * DigitsVal(SubSeq(s, 1, Len(s) - 1)) + DigitVal(s[Len(s)])

AllDigits(s) == s # <<>> /\ \A i \in DOMAIN s : IsDigit(s[i])

(* int(v): truncation of floats, parsing of decimal strings *)
pyint(v) ==
    CASE v.t = "int" -> Ok(v.n)
      [] v.t = "bool" -> Ok(IF v.b THEN 1 ELSE 0)
      [] v.t = "float" ->
            Ok(IF v.tenths < 0 THEN 0 - (Abs(v.tenths) \div 10) ELSE v.tenths \div 10)
      [] v.t = "str" ->
            IF AllDigits(v.s) THEN Ok(DigitsVal(v.s))
            ELSE IF v.s # <<>> /\ v.s[1] \in {"-", "+"} /\ AllDigits(Tail(v.s))
                 THEN Ok(IF v.s[1] = "-" THEN 0 - DigitsVal(Tail(v.s))
                         ELSE DigitsVal(Tail(v.s)))
            ELSE Raise("ValueError", S_invalid_literal \o Quote(v.s))
      [] OTHER -> Raise("TypeError", S_int_arg \o Quote(TypeName(v)))

(* iter(v): the sequence of items a for loop visits *)
Iterate(v) ==
    CASE v.t = "arr" -> Ok(v.a)
      [] v.t = "str" -> Ok([i \in DOMAIN v.s |-> JStr(<<v.s[i]>>)])
      [] v.t = "obj" -> Ok([i \in DOMAIN v.p |-> JStr(v.p[i][1])])
      [] OTHER -> Raise("TypeError", Quote(TypeName(v)) \o S_not_iterable)

-----------------------------------------------------------------------------
(* Texts and the json module *)

EmptyText == [kind |-> "empty"]
NotJsonText == [kind |-> "notjson"]
JsonText(v) == [kind |-> "json", val |-> v]

(* json.loads(text or "{}") *)
loads_or_empty(text) ==
    CASE text.kind = "empty" -> Ok(EmptyDict)
      [] text.kind = "notjson" -> Raise("JSONDecodeError", S_expecting)
      [] text.kind = "json" -> Ok(text.val)

(* json.dumps(obj) *)
dumps(v) == JsonText(v)

-----------------------------------------------------------------------------
(* sdk.py: the request model *)

Message(role, content) == [role |-> role, content |-> content]

BufferContext(path, filetype) == [path |-> path, filetype |-> filetype]

EditorContext(cwd) == [cwd |-> cwd]

Context(buffer, editor) == [buffer |-> buffer, editor |-> editor]

Request(instructions, messages, tools, context, iter, pv) ==
    [instructions |-> instructions, messages |-> messages, tools |-> tools,
     context |-> context, iteration |-> iter, protocol_version |-> pv]

(* index of the first entry that has no .get, 0 when there is none *)
FirstNonDict(items) ==
    IF \E i \in DOMAIN items : ~IsDict(items[i])
    THEN CHOOSE i \in DOMAIN items :
            ~IsDict(items[i]) /\ \A j \in 1..(i - 1) : IsDict(items[j])
    ELSE 0

(* the list comprehension of Request.from_dict *)
from_dict_msgs(data) ==
    LET it == Iterate(Or(get(data, K_messages, JNull), JArr(<<>>)))
    IN  IF ~it.ok THEN it
        ELSE IF FirstNonDict(it.val) # 0
             THEN AttributeError(it.val[FirstNonDict(it.val)], S_get)
        ELSE Ok([i \in DOMAIN it.val |->
                    Message(pystr(get(it.val[i], K_role, JStr(S_user))),
                            pystr(get(it.val[i], K_content, JStr(<<>>))))])

(* the context block of Request.from_dict *)
from_dict_ctx(data) ==
    LET ctx_raw == Or(get(data, K_context, JNull), EmptyDict)
    IN  IF ~IsDict(ctx_raw) THEN AttributeError(ctx_raw, S_get)
        ELSE LET buf == Or(get(ctx_raw, K_buffer, JNull), EmptyDict)
                 edt == Or(get(ctx_raw, K_editor, JNull), EmptyDict)
             IN  IF ~IsDict(buf) THEN AttributeError(buf, S_get)
                 ELSE IF ~IsDict(edt) THEN AttributeError(edt, S_get)
                 ELSE Ok(Context(BufferContext(get(buf, K_path, JNull),
                                               get(buf, K_filetype, JNull)),
                                 EditorContext(get(edt, K_cwd, JNull))))

(* Request.from_dict(data) *)
from_dict(data) ==
    IF ~IsDict(data) THEN AttributeError(data, S_get)
    ELSE LET proto == Or(get(data, K_protocol, EmptyDict), EmptyDict)
         IN  IF ~IsDict(proto) THEN AttributeError(proto, S_get)
             ELSE LET pv == pystr(Or(get(proto, K_version, JNull), JStr(PROTOCOL_VERSION)))
                      msgs == from_dict_msgs(data)
                      ctx == from_dict_ctx(data)
                      iter == pyint(Or(get(data, K_iteration, JNull), JInt(1)))
                  IN  IF ~msgs.ok THEN msgs
                      ELSE IF ~ctx.ok THEN ctx
                      ELSE IF ~iter.ok THEN iter
                      ELSE Ok(Request(
                               pystr(Or(get(data, K_instructions, JNull), JStr(<<>>))),
                               msgs.val,
                               Or(get(data, K_tools, JNull), EmptyDict),
                               ctx.val,
                               iter.val,
                               pv))

(* read_request(), as a function of the text on stdin *)
read_request(raw) ==
    LET data == loads_or_empty(raw)
    IN  IF ~data.ok THEN data ELSE from_dict(data.val)

-----------------------------------------------------------------------------
(* Inputs *)

ToolDescriptor == JObj(<< <<K_name, JStr(S_ReadFileLines)>> >>)

ProtocolVals ==
    { JObj(<< <<K_version, JStr(S_v2)>> >>), JStr(S_abc), JNull }

InstructionVals == { JStr(<<>>), JStr(S_brief), JInt(5) }

MsgEntries ==
    { JObj(<< <<K_role, JStr(S_user)>>, <<K_content, JStr(S_hi)>> >>),
      JObj(<< <<K_role, JStr(S_user)>> >>),
      JObj(<< <<K_role, JNull>>, <<K_content, JNull>> >>),
      JObj(<< <<K_content, JInt(5)>> >>),
      JInt(5) }

MsgLists == UNION { [1..n -> MsgEntries] : n \in 0..MaxMsgs }

MessagesVals == { JArr(s) : s \in MsgLists } \cup { JInt(5), JStr(S_hi) }

ToolsVals ==
    { JObj(<< <<S_ReadFileLines, ToolDescriptor>> >>),
      JArr(<<JStr(S_ReadFileLines)>>),
      JStr(S_ReadFileLines),
      JInt(5) }

ContextVals ==
    { JObj(<< <<K_buffer, JObj(<< <<K_path, JStr(S_ab_py)>> >>)>> >>),
      JObj(<< <<K_buffer, JNull>>, <<K_editor, JObj(<< <<K_cwd, JStr(S_abc)>> >>)>> >>),
      JObj(<< <<K_buffer, JInt(5)>> >>),
      JStr(S_abc) }

IterationVals ==
    { JInt(0), JInt(1), JInt(2), JInt(-1), JFloat(5),
      JStr(S_abc), JBool(TRUE), JArr(<<JInt(1)>>) }

FieldKeys == <<K_protocol, K_instructions, K_messages, K_tools, K_context, K_iteration>>

FieldVals(i) ==
    CASE i = 1 -> ProtocolVals
      [] i = 2 -> InstructionVals
      [] i = 3 -> MessagesVals
      [] i = 4 -> ToolsVals
      [] i = 5 -> ContextVals
      [] i = 6 -> IterationVals

(* pair sequences over the fields i..6 with at most n of them present *)
RECURSIVE FieldPairs(_, _)
FieldPairs(i, n) ==
    IF i > Len(FieldKeys) THEN { <<>> }
    ELSE FieldPairs(i + 1, n)
         \cup (IF n = 0 THEN {}
               ELSE { << <<FieldKeys[i], v>> >> \o r :
                        v \in FieldVals(i), r \in FieldPairs(i + 1, n - 1) })

Payloads == { JObj(p) : p \in FieldPairs(1, MaxFields) }

NonObjects ==
    { JNull, JBool(TRUE), JInt(0), JInt(5), JFloat(5), JStr(S_hi),
      JArr(<<>>), JArr(<<JInt(1)>>) }

StdinTexts ==
    { EmptyText, NotJsonText } \cup { JsonText(v) : v \in NonObjects \cup Payloads }

Unset == [t |-> "unset"]

-----------------------------------------------------------------------------
(* sdk.py: the response envelope *)

(* d[k] = v on the pairs of a dict *)
setitem(p, k, v) ==
    IF \E i \in DOMAIN p : p[i][1] = k
    THEN [i \in DOMAIN p |-> IF p[i][1] = k THEN <<k, v>> ELSE p[i]]
    ELSE Append(p, <<k, v>>)

RECURSIVE dict_update(_, _)
dict_update(p, pairs) ==
    IF pairs = <<>> THEN p
    ELSE dict_update(setitem(p, pairs[1].a[1].s, pairs[1].a[2]), Tail(pairs))

IsPair(v) == v.t = "arr" /\ Len(v.a) = 2 /\ IsStr(v.a[1])

(* dict(v) for a truthy v; keys other than str are outside the modelled dicts *)
pydict(v) ==
    CASE v.t = "obj" -> Ok(v)
      [] v.t = "arr" ->
            IF \A i \in DOMAIN v.a : IsPair(v.a[i])
            THEN Ok(JObj(dict_update(<<>>, v.a)))
            ELSE IF \E i \in DOMAIN v.a : v.a[i].t \in {"arr", "str", "obj"} /\ ~IsPair(v.a[i])
                 THEN Raise("ValueError", S_dict_length)
            ELSE Raise("TypeError", S_dict_update)
      [] v.t = "str" -> Raise("ValueError", S_dict_length)
      [] OTHER -> Raise("TypeError", Quote(TypeName(v)) \o S_not_iterable)

reply(content) == JObj(<< <<K_content, JStr(pystr(content))>> >>)

call_tool(name, arguments) ==
    LET args == pydict(Or(arguments, EmptyDict))
    IN  IF ~args.ok THEN args
        ELSE Ok(JObj(<< <<K_tool_call,
                          JObj(<< <<K_name, JStr(pystr(name))>>,
                                  <<K_arguments, args.val>> >>)>> >>))

ask_user(message) ==
    JObj(<< <<K_ask_user, JObj(<< <<K_message, JStr(pystr(message))>> >>)>> >>)

(* terminate with the message stored beside the terminate key *)
terminate_flat(message) ==
    LET out == JObj(<< <<K_terminate, EmptyDict>> >>)
    IN  IF Truthy(message)
        THEN JObj(setitem(out.p, K_message, JStr(pystr(message))))
        ELSE out

(* terminate testing `message is not None` instead of the truth value *)
terminate_is_not_none(message) ==
    LET out == JObj(<< <<K_terminate, EmptyDict>> >>)
    IN  IF message # JNull
        THEN JObj(setitem(out.p, K_terminate,
                          JObj(setitem(Item(out, K_terminate).p, K_message,
                                       JStr(pystr(message))))))
        ELSE out

terminate(message) ==
    LET out == JObj(<< <<K_terminate, EmptyDict>> >>)
    IN  IF Truthy(message)
        THEN JObj(setitem(out.p, K_terminate,
                          JObj(setitem(Item(out, K_terminate).p, K_message,
                                       JStr(pystr(message))))))
        ELSE out

error(message) ==
    JObj(<< <<K_error, JObj(<< <<K_message, JStr(pystr(message))>> >>)>> >>)

-----------------------------------------------------------------------------
(* agent_runner.py *)

read_stdin_json(data) == loads_or_empty(data)

(* v == n for an int literal n *)
PyEq(v, n) ==
    CASE v.t = "int" -> v.n = n
      [] v.t = "bool" -> (IF v.b THEN 1 ELSE 0) = n
      [] v.t = "float" -> v.tenths = 10 * n
      [] OTHER -> FALSE

IsSubstring(n, s) ==
    \E i \in 0..(Len(s) - Len(n)) : SubSeq(s, i + 1, i + Len(n)) = n

(* needle in v, for a str needle *)
contains(v, needle) ==
    CASE v.t = "obj" -> Ok(needle \in Keys(v))
      [] v.t = "arr" -> Ok(\E i \in DOMAIN v.a : v.a[i] = JStr(needle))
      [] v.t = "str" -> Ok(IsSubstring(needle, v.s))
      [] OTHER -> Raise("TypeError",
                        S_not_container \o Quote(TypeName(v)) \o S_is_not_iterable)

Reverse(s) == [i \in DOMAIN s |-> s[Len(s) + 1 - i]]

(* reversed(v) *)
pyreversed(v) ==
    LET it == Iterate(v)
    IN  IF it.ok THEN Ok(Reverse(it.val))
        ELSE Raise("TypeError", Quote(TypeName(v)) \o S_not_reversible)

(* next((m for m in items if m.get("role") == "user"), None) *)
next_user(items) ==
    LET Stops(i) == ~IsDict(items[i]) \/ get(items[i], K_role, JNull) = JStr(S_user)
    IN  IF \A i \in DOMAIN items : ~Stops(i) THEN Ok(JNull)
        ELSE LET i == CHOOSE i \in DOMAIN items :
                          Stops(i) /\ \A j \in 1..(i - 1) : ~Stops(j)
             IN  IF IsDict(items[i]) THEN Ok(items[i])
                 ELSE AttributeError(items[i], S_get)

ToolCallReadFileLines ==
    JObj(<< <<K_tool_call,
              JObj(<< <<K_name, JStr(S_ReadFileLines)>>,
                      <<K_arguments,
                        JObj(<< <<K_path, JStr(S_etc_hosts)>>,
                                <<K_start_line, JInt(1)>>,
                                <<K_end_line, JInt(20)>> >>)>> >>)>> >>)

(* the echo branch of build_simple_response *)
echo_last_user(instructions, messages) ==
    LET rev == pyreversed(messages)
    IN  IF ~rev.ok THEN rev
        ELSE LET last_user == next_user(rev.val)
             IN  IF ~last_user.ok THEN last_user
                 ELSE LET text == IF Truthy(last_user.val)
                                  THEN get(last_user.val, K_content, JNull)
                                  ELSE JStr(S_help)
                      IN  Ok(JObj(<< <<K_content,
                                       IF Truthy(instructions)
                                       THEN JStr(pystr(instructions) \o S_sep \o pystr(text))
                                       ELSE text>> >>))

(* build_simple_response without the first-iteration test *)
build_simple_response_any_iteration(payload) ==
    IF ~IsDict(payload) THEN AttributeError(payload, S_get)
    ELSE LET instructions == Or(get(payload, K_instructions, JNull), JStr(<<>>))
             messages == Or(get(payload, K_messages, JNull), JArr(<<>>))
             tools == Or(get(payload, K_tools, JNull), EmptyDict)
             has_tool == contains(tools, S_ReadFileLines)
         IN  IF ~has_tool.ok THEN has_tool
             ELSE IF has_tool.val THEN Ok(ToolCallReadFileLines)
             ELSE echo_last_user(instructions, messages)

build_simple_response(payload) ==
    IF ~IsDict(payload) THEN AttributeError(payload, S_get)
    ELSE LET instructions == Or(get(payload, K_instructions, JNull), JStr(<<>>))
             messages == Or(get(payload, K_messages, JNull), JArr(<<>>))
             iter == Or(get(payload, K_iteration, JNull), JInt(1))
             tools == Or(get(payload, K_tools, JNull), EmptyDict)
             has_tool == IF PyEq(iter, 1) THEN contains(tools, S_ReadFileLines)
                         ELSE Ok(FALSE)
         IN  IF ~has_tool.ok THEN has_tool
             ELSE IF has_tool.val THEN Ok(ToolCallReadFileLines)
             ELSE echo_last_user(instructions, messages)

(* main without the try block around the policy *)
main_uncaught(text) ==
    LET p == read_stdin_json(text)
    IN  IF ~p.ok
        THEN [written |-> <<dumps(JObj(<< <<K_error, JStr(S_invalid_input \o p.msg)>> >>))>>,
              exc |-> NoException]
        ELSE LET out == build_simple_response(p.val)
             IN  IF ~out.ok
                 THEN [written |-> <<>>, exc |-> out]
                 ELSE [written |-> <<dumps(out.val)>>, exc |-> NoException]

(* main(): what it writes to stdout and the exception that escapes it *)
main(text) ==
    LET p == read_stdin_json(text)
    IN  IF ~p.ok
        THEN [written |-> <<dumps(JObj(<< <<K_error, JStr(S_invalid_input \o p.msg)>> >>))>>,
              exc |-> NoException]
        ELSE LET out == build_simple_response(p.val)
             IN  IF ~out.ok
                 THEN [written |-> <<dumps(JObj(<< <<K_error,
                                                     JStr(S_runner_error \o out.msg)>> >>))>>,
                       exc |-> NoException]
                 ELSE [written |-> <<dumps(out.val)>>, exc |-> NoException]

-----------------------------------------------------------------------------
(* An agent process that parses its request with the SDK *)

Init ==
    /\ stdin \in StdinTexts
    /\ stdout = <<>>
    /\ pc = "start"
    /\ raised = NoException
    /\ request = Unset
    /\ main_payload = Unset
    /\ call = Unset
    /\ envelope = Unset
    /\ session = Unset
    /\ history = <<>>
    /\ iteration = 0
    /\ invocations = 0
    /\ tool_calls = 0

ReadRequest ==
    /\ pc = "start"
    /\ LET r == read_request(stdin)
       IN  IF r.ok
           THEN /\ request' = r.val
                /\ pc' = "parsed"
                /\ UNCHANGED raised
           ELSE /\ raised' = r
                /\ pc' = "crashed"
                /\ UNCHANGED request
    /\ UNCHANGED <<stdin, stdout, main_payload, call, envelope,
                   session, history, iteration, invocations, tool_calls>>

Next == ReadRequest

Spec == Init /\ [][Next]_vars

-----------------------------------------------------------------------------
(* The template runner as a process *)

Main ==
    /\ pc = "start"
    /\ LET r == main(stdin)
       IN  /\ stdout' = stdout \o r.written
           /\ raised' = r.exc
           /\ pc' = IF r.exc = NoException THEN "exit" ELSE "crashed"
    /\ main_payload' = (IF read_stdin_json(stdin).ok THEN read_stdin_json(stdin).val ELSE Unset)
    /\ UNCHANGED <<stdin, request, call, envelope,
                   session, history, iteration, invocations, tool_calls>>

NextRunner == Main

SpecRunner == Init /\ [][NextRunner]_vars

-----------------------------------------------------------------------------
(* A decision policy that builds one envelope with the SDK and emits it *)

ArgVals ==
    { JNull, JStr(<<>>), JStr(S_hi), JStr(S_done), JInt(0), JInt(5), JBool(TRUE) }

ArgumentVals ==
    { JNull, EmptyDict,
      JObj(<< <<K_path, JStr(S_ab_py)>> >>),
      JArr(<< JArr(<<JStr(K_path), JStr(S_ab_py)>>) >>),
      JArr(<<JInt(1)>>),
      JStr(S_abc),
      JInt(5) }

Call(fn, args) == [fn |-> fn, args |-> args]

InitEnvelope ==
    /\ stdin = EmptyText
    /\ stdout = <<>>
    /\ pc = "policy"
    /\ raised = NoException
    /\ request = Unset
    /\ main_payload = Unset
    /\ call = Unset
    /\ envelope = Unset
    /\ session = Unset
    /\ history = <<>>
    /\ iteration = 0
    /\ invocations = 0
    /\ tool_calls = 0

Built(c, env) ==
    /\ call' = c
    /\ envelope' = env
    /\ pc' = "built"
    /\ UNCHANGED <<stdin, stdout, raised, request, main_payload,
                   session, history, iteration, invocations, tool_calls>>

Reply ==
    /\ pc = "policy"
    /\ \E x \in ArgVals : Built(Call("reply", <<x>>), reply(x))

CallTool ==
    /\ pc = "policy"
    /\ \E n \in ArgVals, a \in ArgumentVals :
          LET r == call_tool(n, a)
          IN  IF r.ok THEN Built(Call("call_tool", <<n, a>>), r.val)
              ELSE /\ call' = Call("call_tool", <<n, a>>)
                   /\ raised' = r
                   /\ pc' = "crashed"
                   /\ UNCHANGED <<stdin, stdout, request, main_payload, envelope,
                                  session, history, iteration, invocations, tool_calls>>

AskUser ==
    /\ pc = "policy"
    /\ \E x \in ArgVals : Built(Call("ask_user", <<x>>), ask_user(x))

Terminate ==
    /\ pc = "policy"
    /\ \E x \in ArgVals : Built(Call("terminate", <<x>>), terminate(x))

Error ==
    /\ pc = "policy"
    /\ \E x \in ArgVals : Built(Call("error", <<x>>), error(x))

(* emit(obj) *)
Emit ==
    /\ pc = "built"
    /\ stdout' = Append(stdout, dumps(envelope))
    /\ pc' = "done"
    /\ UNCHANGED <<stdin, raised, request, main_payload, call, envelope,
                   session, history, iteration, invocations, tool_calls>>

NextEnvelope == Reply \/ CallTool \/ AskUser \/ Terminate \/ Error \/ Emit

SpecEnvelope == InitEnvelope /\ [][NextEnvelope]_vars

-----------------------------------------------------------------------------
(* The turn loop of the orchestrator driving the template runner *)

ToolResultMsgs ==
    { JObj(<< <<K_role, JStr(S_assistant)>>, <<K_content, JStr(S_yo)>> >>),
      JObj(<< <<K_role, JStr(S_tool)>>, <<K_content, JStr(S_abc)>> >>) }

TurnPayload ==
    JObj(<< <<K_instructions, session.instructions>>,
            <<K_messages, JArr(history)>>,
            <<K_tools, session.tools>>,
            <<K_iteration, JInt(iteration)>> >>)

(* the session state an agent output leads to *)
AfterOutput(written) ==
    IF written = <<>> THEN "DONE"
    ELSE LET key == written[1].val.p[1][1]
         IN  CASE key = K_tool_call -> "AWAITING_TOOL_RESULT"
               [] key = K_ask_user -> "AWAITING_USER"
               [] OTHER -> "DONE"

InitLoop ==
    /\ stdin = EmptyText
    /\ stdout = <<>>
    /\ pc = "AWAITING_AGENT"
    /\ raised = NoException
    /\ request = Unset
    /\ main_payload = Unset
    /\ call = Unset
    /\ envelope = Unset
    /\ session \in [instructions : InstructionVals, tools : ToolsVals \cup {EmptyDict}]
    /\ history \in MsgLists
    /\ iteration = 1
    /\ invocations = 0
    /\ tool_calls = 0

InvokeAgent ==
    /\ pc = "AWAITING_AGENT"
    /\ LET r == main(dumps(TurnPayload))
       IN  /\ stdin' = dumps(TurnPayload)
           /\ stdout' = r.written
           /\ raised' = r.exc
           /\ pc' = AfterOutput(r.written)
           /\ tool_calls' = IF AfterOutput(r.written) = "AWAITING_TOOL_RESULT"
                            THEN tool_calls + 1 ELSE tool_calls
    /\ main_payload' = TurnPayload
    /\ invocations' = invocations + 1
    /\ UNCHANGED <<request, call, envelope, session, history, iteration>>

ToolResult ==
    /\ pc = "AWAITING_TOOL_RESULT"
    /\ iteration < MaxIteration
    /\ \E m \in ToolResultMsgs : history' = Append(history, m)
    /\ iteration' = iteration + 1
    /\ pc' = "AWAITING_AGENT"
    /\ UNCHANGED <<stdin, stdout, raised, request, main_payload, call, envelope,
                   session, invocations, tool_calls>>

NextLoop == InvokeAgent \/ ToolResult

SpecLoop == InitLoop /\ [][NextLoop]_vars

-----------------------------------------------------------------------------
(* Properties *)

EnvelopeKeys == { K_content, K_tool_call, K_ask_user, K_terminate, K_error }

RunnerKeys == { K_content, K_tool_call, K_error }

(* v is a JSON object with exactly one top-level key, and that key is in ks *)
OneKeyAmong(v, ks) == IsDict(v) /\ Len(v.p) = 1 /\ v.p[1][1] \in ks

(* C1: every envelope built by reply, call_tool, ask_user, terminate and
   error, and every text emit writes for it, is an object with exactly one
   top-level key, one of content, tool_call, ask_user, terminate, error. *)
C1_OneTopLevelKey ==
    /\ envelope # Unset => OneKeyAmong(envelope, EnvelopeKeys)
    /\ \A i \in DOMAIN stdout :
          stdout[i].kind = "json" /\ OneKeyAmong(stdout[i].val, EnvelopeKeys)

(* a terminate envelope that carries a message has been emitted *)
C1_Witness ==
    /\ pc = "done"
    /\ call.fn = "terminate"
    /\ Truthy(call.args[1])
    /\ Len(stdout) = 1

(* C2: for every stdin text, main never lets an exception escape and has
   written nothing before it ran; once it has ended it has written exactly
   once, a JSON object with exactly one top-level key among content,
   tool_call and error. *)
C2_AlwaysOneObject ==
    /\ pc # "crashed"
    /\ raised = NoException
    /\ pc = "start" => stdout = <<>>
    /\ pc = "exit" =>
          /\ Len(stdout) = 1
          /\ stdout[1].kind = "json"
          /\ OneKeyAmong(stdout[1].val, RunnerKeys)

InvalidInput == ~read_stdin_json(stdin).ok

PolicyError ==
    /\ read_stdin_json(stdin).ok
    /\ ~build_simple_response(read_stdin_json(stdin).val).ok

(* main has ended after the policy raised on a payload that is not an object *)
C2_Witness ==
    /\ pc = "exit"
    /\ stdin.kind = "json"
    /\ ~IsDict(stdin.val)
    /\ PolicyError
    /\ Len(stdout) = 1
    /\ K_error \in Keys(stdout[1].val)

(* C3: when the input is not parseable JSON or the policy raises, the
   object main writes is an Error envelope of the output schema: its only
   key is error and the value of error is an object with a string message. *)
C3_ErrorEnvelopeSchema ==
    (pc = "exit" /\ (InvalidInput \/ PolicyError)) =>
        /\ Len(stdout) = 1
        /\ OneKeyAmong(stdout[1].val, {K_error})
        /\ IsDict(Item(stdout[1].val, K_error))
        /\ K_message \in Keys(Item(stdout[1].val, K_error))
        /\ IsStr(Item(Item(stdout[1].val, K_error), K_message))

DecodesToObject == loads_or_empty(stdin).ok /\ IsDict(loads_or_empty(stdin).val)

DefaultContext == Context(BufferContext(JNull, JNull), EditorContext(JNull))

DefaultRequest ==
    Request(<<>>, <<>>, EmptyDict, DefaultContext, 1, PROTOCOL_VERSION)

AbsentFieldsDefault(data, req) ==
    /\ K_protocol \notin Keys(data) => req.protocol_version = DefaultRequest.protocol_version
    /\ K_instructions \notin Keys(data) => req.instructions = DefaultRequest.instructions
    /\ K_messages \notin Keys(data) => req.messages = DefaultRequest.messages
    /\ K_tools \notin Keys(data) => req.tools = DefaultRequest.tools
    /\ K_context \notin Keys(data) => req.context = DefaultRequest.context
    /\ K_iteration \notin Keys(data) => req.iteration = DefaultRequest.iteration

(* C4: for every input that decodes to a JSON object, whatever the types of
   its fields, read_request returns a Request without raising and every
   absent field has its documented default. *)
C4_ObjectNeverRaises ==
    (pc # "start" /\ DecodesToObject) =>
        /\ pc = "parsed"
        /\ AbsentFieldsDefault(loads_or_empty(stdin).val, request)

(* C5: when the text is valid JSON whose value is not an object,
   read_request does not fail and returns the all-defaults Request. *)
C5_NonObjectDefaults ==
    (pc # "start" /\ stdin.kind = "json" /\ ~IsDict(stdin.val)) =>
        /\ pc = "parsed"
        /\ request = DefaultRequest

(* C6: the iteration of every Request that from_dict returns is an
   integer that is at least 1. *)
C6_IterationPositive ==
    pc = "parsed" => request.iteration >= 1

(* the Message the parsing rules document for an entry of messages *)
DocumentedMessage(m) ==
    Message(IF K_role \in Keys(m) /\ IsStr(Item(m, K_role))
            THEN Item(m, K_role).s ELSE S_user,
            IF K_content \in Keys(m) /\ Item(m, K_content) # JNull
            THEN pystr(Item(m, K_content)) ELSE <<>>)

InputMessages ==
    LET data == loads_or_empty(stdin).val
    IN  IF K_messages \in Keys(data) /\ get(data, K_messages, JNull).t = "arr"
        THEN get(data, K_messages, JNull).a
        ELSE <<>>

(* C7: every entry of messages becomes a Message, in input order, whose
   role is "user" when the entry's role is missing or not a string and the
   input role otherwise, and whose content is the input content as a
   string, or the empty string when it is missing or null. *)
C7_MessagesDefaulted ==
    pc = "parsed" =>
        /\ Len(request.messages) = Len(InputMessages)
        /\ \A i \in DOMAIN InputMessages :
              request.messages[i] = DocumentedMessage(InputMessages[i])

TerminateEmpty == JObj(<< <<K_terminate, EmptyDict>> >>)

TerminateWith(s) ==
    JObj(<< <<K_terminate, JObj(<< <<K_message, JStr(s)>> >>)>> >>)

(* C8: terminate with no message (None or the empty string) yields
   {"terminate": {}}, terminate(m) with a non-empty string m yields
   {"terminate": {"message": m}}, and no result carries a message that is
   null or the empty string. *)
C8_TerminateMessage ==
    (pc \in {"built", "done"} /\ call.fn = "terminate") =>
        LET m == call.args[1]
        IN  /\ m \in {JNull, JStr(<<>>)} => envelope = TerminateEmpty
            /\ (IsStr(m) /\ m.s # <<>>) => envelope = TerminateWith(m.s)
            /\ K_terminate \in Keys(envelope)
            /\ IsDict(Item(envelope, K_terminate))
            /\ K_message \in Keys(Item(envelope, K_terminate)) =>
                  Item(Item(envelope, K_terminate), K_message) \notin {JNull, JStr(<<>>)}

(* terminate("") has been called and its envelope emitted *)
C8_Witness ==
    /\ pc = "done"
    /\ call.fn = "terminate"
    /\ call.args[1] = JStr(<<>>)
    /\ envelope = TerminateEmpty
    /\ stdout = <<dumps(TerminateEmpty)>>

IsUserEntry(m) == IsDict(m) /\ get(m, K_role, JNull) = JStr(S_user)

(* the requests C9 is about: no instructions, no tool call triggered, and
   messages a list of objects with at least one user entry *)
EchoRequest(data) ==
    /\ IsDict(data)
    /\ get(data, K_instructions, JStr(<<>>)) = JStr(<<>>)
    /\ get(data, K_tools, EmptyDict).t = "obj"
    /\ get(data, K_iteration, JInt(1)).t = "int"
    /\ \/ get(data, K_iteration, JInt(1)) \notin {JInt(0), JInt(1)}
       \/ S_ReadFileLines \notin Keys(get(data, K_tools, EmptyDict))
    /\ get(data, K_messages, JNull).t = "arr"
    /\ \A i \in DOMAIN get(data, K_messages, JNull).a :
          IsDict(get(data, K_messages, JNull).a[i])
    /\ \E i \in DOMAIN get(data, K_messages, JNull).a :
          IsUserEntry(get(data, K_messages, JNull).a[i])

LastUserEntry(msgs) ==
    msgs[CHOOSE i \in DOMAIN msgs :
            IsUserEntry(msgs[i]) /\ \A j \in (i + 1)..Len(msgs) : ~IsUserEntry(msgs[j])]

(* C9: for a request without instructions that does not trigger the tool
   call and has a user entry, the output is {"content": c} where c is the
   content of the last user entry, and c is a string. *)
C9_EchoLastUserString ==
    (pc = "exit" /\ read_stdin_json(stdin).ok /\ EchoRequest(read_stdin_json(stdin).val)) =>
        LET msgs == get(read_stdin_json(stdin).val, K_messages, JNull).a
            out == stdout[1].val
        IN  /\ OneKeyAmong(out, {K_content})
            /\ IsStr(Item(out, K_content))
            /\ Item(out, K_content) = get(LastUserEntry(msgs), K_content, JNull)

(* the runner asked for a tool in this turn *)
ToolCallEmitted == pc = "AWAITING_TOOL_RESULT"

(* C10: driven by the turn loop, the template policy asks for a tool only
   at iteration 1, so a session makes at most two agent invocations and at
   most one tool call: the second invocation always ends it in DONE, and
   before DONE the session is never parked waiting for the user. *)
C10_DoneWithinTwoTurns ==
    /\ invocations <= 2
    /\ tool_calls <= 1
    /\ pc \in {"AWAITING_AGENT", "AWAITING_TOOL_RESULT", "DONE"}
    /\ ToolCallEmitted => (iteration = 1 /\ invocations = 1)
    /\ pc = "AWAITING_AGENT" => invocations = iteration - 1
    /\ invocations = 2 => pc = "DONE"

(* a session that ended at its second invocation, after one tool call *)
C10_Witness ==
    /\ pc = "DONE"
    /\ invocations = 2
    /\ tool_calls = 1
    /\ iteration = 2
    /\ Len(history) > 0

====
